---- MODULE Spec2Model ----
(***************************************************************************)
(* BAR archive codec (package bar): the Writer and Reader state machines   *)
(* over the byte layout Header | Data | Table | Footer.                    *)
(*                                                                         *)
(* Bytes are naturals 0..255, byte strings are sequences of bytes.         *)
(* Errors are strings; "nil" is Go's nil error.                            *)
(***************************************************************************)
EXTENDS Integers, Sequences, FiniteSets, TLC

\* ---------------------------------------------------------------------
\* Bounds of the model
\* ---------------------------------------------------------------------
MaxCalls == 5
MaxEntries == 2
MaxContent == 2
MaxViews == 2

\* ---------------------------------------------------------------------
\* Program constants (archive/bar/common.go)
\* ---------------------------------------------------------------------
Version == 1
headerSize == 4
entrySize == 32
footerSize == 16
magicNumber == <<66, 65, 82>>
DefaultPerm == 420
AdlerMod == 65521
maxMatchOffset == 32768
defaultBufSize == 4096

NoErr == "nil"
ErrNoValidEntry == "ErrNoValidEntry"
ErrPathIsNotSimple == "ErrPathIsNotSimple"
ErrWriteAfterClose == "ErrWriteAfterClose"
ErrUnknownFormat == "ErrUnknownFormat"
ErrUnsupportedVersion == "ErrUnsupportedVersion"
ErrInvalidChecksum == "ErrInvalidChecksum"
ErrUnexpectedEOF == "io.ErrUnexpectedEOF"
EOF == "io.EOF"
ErrCorruptInput == "flate.CorruptInputError"
ErrSeek == "seek: invalid argument"
ErrIO == "sink write error"
ErrPanic == "panic"

\* ---------------------------------------------------------------------
\* Byte-order codec (wBuf / rBuf): little-endian fixed width integers
\* ---------------------------------------------------------------------
\* wBuf.Uint16/32/64: the w low-order bytes of u, least significant first
\* (the conversion to the field's width is the truncation to w bytes)
RECURSIVE PutLE(_, _)
PutLE(u, w) == IF w = 0 THEN <<>> ELSE <<u % 256>> \o PutLE(u \div 256, w - 1)

\* rBuf.Uint16/32/64.  Values of 2^30 and more are all read as Huge: they
\* lie beyond every position and size of the model and behave alike.
Huge == 4194304 * 256

RECURSIVE GetLE(_)
GetLE(b) ==
    IF b = <<>> THEN 0
    ELSE LET r == GetLE(Tail(b))
         IN  IF r >= 4194304 THEN Huge ELSE Head(b) + 256 * r

\* ---------------------------------------------------------------------
\* Adler-32 (hash/adler32), kept as the pair <<a, b>> of its two 16-bit
\* sums; Sum32 is b * 65536 + a, written little-endian as a then b
\* ---------------------------------------------------------------------
AdlerInit == <<1, 0>>

\* one byte: a += x, b += a, both mod 65521
AdlerByte(s, x) ==
    LET a == (s[1] + x) % AdlerMod
        b == (s[2] + a) % AdlerMod
    IN  <<a, b>>

\* sum of p[lo..hi] mod 65521, and the same sum with p[i] weighted by the
\* number of bytes from i to the end of p
RECURSIVE SumBytes(_, _, _)
SumBytes(p, lo, hi) ==
    IF lo > hi THEN 0
    ELSE IF lo = hi THEN p[lo]
    ELSE LET m == (lo + hi) \div 2
         IN  (SumBytes(p, lo, m) + SumBytes(p, m + 1, hi)) % AdlerMod

RECURSIVE WeightedBytes(_, _, _)
WeightedBytes(p, lo, hi) ==
    IF lo > hi THEN 0
    ELSE IF lo = hi THEN ((Len(p) - lo + 1) * p[lo]) % AdlerMod
    ELSE LET m == (lo + hi) \div 2
         IN  (WeightedBytes(p, lo, m) + WeightedBytes(p, m + 1, hi)) % AdlerMod

\* n * x mod 65521 for x < 65536, without leaving 32 bits
MulMod(n, x) == (n * (x % 256) + ((n * (x \div 256)) % AdlerMod) * 256) % AdlerMod

\* digest.Write(p): AdlerByte applied to every byte of p in turn, which
\* adds sum(p) to a and Len(p) * a + the weighted sum of p to b
AdlerWrite(s, p) ==
    <<(s[1] + SumBytes(p, 1, Len(p))) % AdlerMod,
      (s[2] + MulMod(Len(p), s[1]) + WeightedBytes(p, 1, Len(p))) % AdlerMod>>

Adler32(p) == AdlerWrite(AdlerInit, p)

\* wBuf.Uint32 / rBuf.Uint32 of a checksum
PutAdler(s) == PutLE(s[1], 2) \o PutLE(s[2], 2)

GetAdler(b) == <<GetLE(SubSeq(b, 1, 2)), GetLE(SubSeq(b, 3, 4))>>

\* ---------------------------------------------------------------------
\* Sequence helpers
\* ---------------------------------------------------------------------
Min(a, b) == IF a < b THEN a ELSE b

Take(s, n) == SubSeq(s, 1, Min(n, Len(s)))

Drop(s, n) == SubSeq(s, Min(n, Len(s)) + 1, Len(s))

Zeros(n) == [i \in 1..n |-> 0]

\* ---------------------------------------------------------------------
\* path/filepath as used by Writer.Create (unix): names are byte strings,
\* 47 = '/', 46 = '.', 92 = '\'
\* ---------------------------------------------------------------------
Slash == 47
Dot == 46
Backslash == 92
DotSeg == <<46>>
DotDotSeg == <<46, 46>>

\* strings.Cut(p, "/") repeated: the "/"-separated parts of p, cut at the
\* positions of the slashes
RECURSIVE PartsFrom(_, _, _)
PartsFrom(p, start, slashes) ==
    IF slashes = {} THEN <<SubSeq(p, start, Len(p))>>
    ELSE LET m == CHOOSE i \in slashes : \A j \in slashes : i <= j
         IN  <<SubSeq(p, start, m - 1)>> \o PartsFrom(p, m + 1, slashes \ {m})

Split(p) == PartsFrom(p, 1, {i \in 1..Len(p) : p[i] = Slash})

IsAbs(p) == p # <<>> /\ Head(p) = Slash

\* filepath.Clean on the parts: drops "" and ".", lets ".." remove the
\* element before it, keeps a leading ".." only on a path that is not rooted
RECURSIVE CleanParts(_, _, _)
CleanParts(parts, out, rooted) ==
    IF parts = <<>> THEN out
    ELSE LET x == Head(parts)
             rest == Tail(parts)
         IN  IF x = <<>> \/ x = DotSeg THEN CleanParts(rest, out, rooted)
             ELSE IF x = DotDotSeg
                  THEN IF out # <<>> /\ out[Len(out)] # DotDotSeg
                       THEN CleanParts(rest, SubSeq(out, 1, Len(out) - 1), rooted)
                       ELSE IF ~rooted THEN CleanParts(rest, Append(out, x), rooted)
                       ELSE CleanParts(rest, out, rooted)
                  ELSE CleanParts(rest, Append(out, x), rooted)

RECURSIVE Join(_)
Join(parts) ==
    IF parts = <<>> THEN <<>>
    ELSE IF Len(parts) = 1 THEN Head(parts)
    ELSE Head(parts) \o <<Slash>> \o Join(Tail(parts))

Clean(p) ==
    LET c == Join(CleanParts(Split(p), <<>>, IsAbs(p)))
    IN  IF IsAbs(p) THEN <<Slash>> \o c
        ELSE IF c = <<>> THEN DotSeg ELSE c

HasPrefix(p, q) == Len(p) >= Len(q) /\ SubSeq(p, 1, Len(q)) = q

HasDots(p) ==
    LET parts == Split(p)
    IN  \E i \in 1..Len(parts) : parts[i] \in {DotSeg, DotDotSeg}

\* filepath.IsLocal
IsLocal(p) ==
    IF IsAbs(p) \/ p = <<>> THEN FALSE
    ELSE LET q == IF HasDots(p) THEN Clean(p) ELSE p
         IN  ~(q = DotDotSeg \/ HasPrefix(q, <<Dot, Dot, Slash>>))

\* strings.IndexRune(name, '\\') != -1
HasBackslash(p) == \E i \in 1..Len(p) : p[i] = Backslash

\* the test of Writer.Create on the name: TRUE when the name is accepted
NameAccepted(name) == IsLocal(name) /\ ~HasBackslash(name)

\* ---------------------------------------------------------------------
\* compress/flate, write side.  The compressor buffers everything written
\* to it and emits on Close; the encoding of a block is modelled by
\* DEFLATE stored blocks (RFC 1951 3.2.4).  Close always ends the stream
\* with a final empty stored block: 01 00 00 ff ff.
\* ---------------------------------------------------------------------
\* the largest value of a 16-bit field: the length field of a stored
\* block, and the name_length field of a Table record
MaxUint16 == 65535

StoredBlock(final, data) ==
    <<final>> \o PutLE(Len(data), 2) \o PutLE(MaxUint16 - Len(data), 2) \o data

FinalBlock == StoredBlock(1, <<>>)

\* data in blocks of at most MaxUint16 bytes, then the final empty block
RECURSIVE Deflate(_)
Deflate(data) ==
    IF data = <<>> THEN FinalBlock
    ELSE StoredBlock(0, Take(data, MaxUint16)) \o Deflate(Drop(data, MaxUint16))

\* ---------------------------------------------------------------------
\* compress/flate, read side: the decompressor over an adlerReader.  d is
\* [in: the bytes of the source not yet consumed, adler: checksum of the
\* consumed bytes, toRead: decoded bytes ready for the caller, err,
\* pend: bytes written into the window and not yet flushed, wr: write
\* position in the window, step, copyLen, final].  win is the window size.
\* ---------------------------------------------------------------------
ErrHuffman == "flate: huffman block"

NewFlate(in) ==
    [in |-> in, adler |-> AdlerInit, toRead |-> <<>>, err |-> NoErr,
     pend |-> <<>>, wr |-> 0, step |-> "next", copyLen |-> 0, final |-> FALSE]

\* dictDecoder.readFlush
readFlush(d, win) ==
    [d EXCEPT !.toRead = d.pend, !.pend = <<>>,
              !.wr = IF d.wr = win THEN 0 ELSE d.wr]

\* decompressor.finishBlock
finishBlock(d, win) ==
    LET d1 == IF d.final /\ d.pend # <<>> THEN readFlush(d, win) ELSE d
    IN  [d1 EXCEPT !.err = IF d.final THEN EOF ELSE d1.err, !.step = "next"]

\* decompressor.copyData: io.ReadFull into the free part of the window
copyData(d, win) ==
    LET want == Min(win - d.wr, d.copyLen)
        cnt == Min(want, Len(d.in))
        got == Take(d.in, cnt)
        d1 == [d EXCEPT !.in = Drop(d.in, cnt),
                        !.adler = AdlerWrite(d.adler, got),
                        !.copyLen = d.copyLen - cnt,
                        !.pend = d.pend \o got,
                        !.wr = d.wr + cnt]
    IN  IF cnt < want THEN [d1 EXCEPT !.err = ErrUnexpectedEOF]
        ELSE IF d1.wr = win \/ d1.copyLen > 0
        THEN [readFlush(d1, win) EXCEPT !.step = "copy"]
        ELSE finishBlock(d1, win)

\* decompressor.dataBlock: LEN and its ones-complement, then the data
dataBlock(d, win) ==
    LET cnt == Min(4, Len(d.in))
        hdr == Take(d.in, cnt)
        d1 == [d EXCEPT !.in = Drop(d.in, cnt), !.adler = AdlerWrite(d.adler, hdr)]
    IN  IF cnt < 4 THEN [d1 EXCEPT !.err = ErrUnexpectedEOF]
        ELSE LET n == GetLE(SubSeq(hdr, 1, 2))
                 nn == GetLE(SubSeq(hdr, 3, 4))
             IN  IF nn # 65535 - n THEN [d1 EXCEPT !.err = ErrCorruptInput]
                 ELSE IF n = 0 THEN finishBlock(readFlush(d1, win), win)
                 ELSE copyData([d1 EXCEPT !.copyLen = n], win)

\* decompressor.nextBlock: one header byte (BFINAL, BTYPE, padding)
nextBlock(d, win) ==
    IF d.in = <<>> THEN [d EXCEPT !.err = ErrUnexpectedEOF]
    ELSE LET h == Head(d.in)
             typ == (h \div 2) % 4
             d1 == [d EXCEPT !.in = Tail(d.in), !.adler = AdlerByte(d.adler, h),
                             !.final = (h % 2 = 1)]
         IN  IF typ = 0 THEN dataBlock(d1, win)
             ELSE IF typ = 3 THEN [d1 EXCEPT !.err = ErrCorruptInput]
             ELSE [d1 EXCEPT !.err = ErrHuffman]

FlateStep(d, win) == IF d.step = "copy" THEN copyData(d, win) ELSE nextBlock(d, win)

\* decompressor.Read(b) with len(b) = n: [d, out, err]
RECURSIVE FlateRead(_, _, _)
FlateRead(d, n, win) ==
    IF d.toRead # <<>>
    THEN LET k == Min(n, Len(d.toRead))
             rest == Drop(d.toRead, k)
         IN  [d |-> [d EXCEPT !.toRead = rest], out |-> Take(d.toRead, k),
              err |-> IF rest = <<>> THEN d.err ELSE NoErr]
    ELSE IF d.err # NoErr THEN [d |-> d, out |-> <<>>, err |-> d.err]
    ELSE LET s == FlateStep(d, win)
         IN  FlateRead(IF s.err # NoErr /\ s.toRead = <<>> THEN readFlush(s, win) ELSE s,
                       n, win)

\* ---------------------------------------------------------------------
\* NewReader(r) on a source holding the bytes f
\* ---------------------------------------------------------------------
Failed(e, pos, seeks) == [ok |-> FALSE, err |-> e, Entries |-> <<>>, pos |-> pos, seeks |-> seeks]

\* the fields of the 32 fixed bytes of a record
DecodeEntry(buf) ==
    [Name |-> <<>>,
     sizeCompressed |-> GetLE(SubSeq(buf, 1, 8)),
     Size |-> GetLE(SubSeq(buf, 9, 16)),
     index |-> GetLE(SubSeq(buf, 17, 24)),
     adler |-> GetAdler(SubSeq(buf, 25, 28)),
     Perm |-> GetLE(SubSeq(buf, 29, 30))]

NameLength(buf) == GetLE(SubSeq(buf, 31, 32))

\* the result of the name read of record i (0-based): "" to go on
NameReadError(e, i, count) ==
    IF e = EOF /\ i = count - 1 THEN NoErr
    ELSE IF e = EOF THEN ErrUnexpectedEOF
    ELSE e

\* b zero-filled up to n bytes: make([]byte, n) with a read into it
Pad(b, n) == b \o Zeros(n - Len(b))

RECURSIVE ReadEntries(_, _, _, _, _)

\* the second half of one turn of the loop: r2 is the name read
ReadName(buf, r2, i, count, acc, win) ==
    IF NameReadError(r2.err, i, count) # NoErr
    THEN [err |-> NameReadError(r2.err, i, count), entries |-> <<>>, d |-> r2.d]
    ELSE ReadEntries(r2.d, i + 1, count,
                     Append(acc, [DecodeEntry(buf) EXCEPT
                                    !.Name = Pad(r2.out, NameLength(buf))]),
                     win)

\* the first half of one turn of the loop: r1 is the read of the 32 bytes
ReadRecord(r1, i, count, acc, win) ==
    IF r1.err = EOF THEN [err |-> ErrUnexpectedEOF, entries |-> <<>>, d |-> r1.d]
    ELSE IF r1.err # NoErr THEN [err |-> r1.err, entries |-> <<>>, d |-> r1.d]
    ELSE ReadName(Pad(r1.out, entrySize),
                  FlateRead(r1.d, NameLength(Pad(r1.out, entrySize)), win),
                  i, count, acc, win)

\* the loop over the count records: [err, entries, d]
ReadEntries(d, i, count, acc, win) ==
    IF i >= count THEN [err |-> NoErr, entries |-> acc, d |-> d]
    ELSE ReadRecord(FlateRead(d, entrySize, win), i, count, acc, win)

\* the two tests on the header in the other order
HeaderErrorVersionFirst(header) ==
    IF header[4] # Version THEN ErrUnsupportedVersion
    ELSE IF SubSeq(header, 1, 3) # magicNumber THEN ErrUnknownFormat
    ELSE NoErr

\* the two tests on the header: magic first, then version
HeaderError(header) ==
    IF SubSeq(header, 1, 3) # magicNumber THEN ErrUnknownFormat
    ELSE IF header[4] # Version THEN ErrUnsupportedVersion
    ELSE NoErr

\* the comparison after the loop
TableChecksumError(got, want) == IF got # want THEN ErrInvalidChecksum ELSE NoErr

\* after the loop: t is the loop's result, adler the Footer's checksum
TableResult(t, adler, len) ==
    IF t.err # NoErr THEN Failed(t.err, len, 2)
    ELSE IF TableChecksumError(t.d.adler, adler) # NoErr
    THEN Failed(TableChecksumError(t.d.adler, adler), len, 2)
    ELSE [ok |-> TRUE, err |-> NoErr, Entries |-> t.entries, pos |-> len, seeks |-> 2]

\* from the Footer on: seek to the Table, decode it, compare the checksum
ReadTable(f, footer, win) ==
    IF footer[8] >= 128 THEN Failed(ErrSeek, Len(f), 2)
    ELSE TableResult(ReadEntries(NewFlate(Drop(f, GetLE(SubSeq(footer, 1, 8)))), 0,
                                 GetLE(SubSeq(footer, 13, 16)), <<>>, win),
                     GetAdler(SubSeq(footer, 9, 12)), Len(f))

\* after the header was read: hpos is the cursor
ReadHeader(f, header, hpos, win) ==
    IF HeaderError(header) # NoErr THEN Failed(HeaderError(header), hpos, 0)
    ELSE IF Len(f) < footerSize THEN Failed(ErrSeek, hpos, 1)
    ELSE ReadTable(f, SubSeq(f, Len(f) - footerSize + 1, Len(f)), win)

\* NewReader(r), r holding the bytes f, with a decoder window of win bytes:
\* [ok, err, Entries, pos, seeks]
NewReader(f, win) ==
    IF f = <<>> THEN Failed(ErrUnexpectedEOF, 0, 0)
    ELSE ReadHeader(f, Pad(Take(f, headerSize), headerSize), Min(Len(f), headerSize), win)

\* ---------------------------------------------------------------------
\* Writer (dataWriter, Entry, finalizeEntry, writeTable)
\* ---------------------------------------------------------------------
NilWriter == [open |-> FALSE, data |-> <<>>]

\* a Create that leaves the Writer without a stream
DataWriterMissing == [open |-> FALSE, data |-> <<>>]

\* newDataWriter: counters at zero, nothing written yet
newDataWriter == [open |-> TRUE, data |-> <<>>]

\* dataWriter.UncompressedCount after the writes so far
UncompressedCount(dw) == Len(dw.data)

\* the compressed bytes that pass compCounter and adlerWriter on the way
\* to the sink when the compressor is closed
CompressedBytes(dw) == Deflate(dw.data)

\* dataWriter.CompressedCount and dataWriter.Adler after Close, given the
\* compressed bytes c
CompressedCount(c) == Len(c)

DwAdler(c) == Adler32(c)

\* e.index = uint64(bw.index)
EntryIndex(idx) == idx

\* var e Entry; e.Name = name; e.Perm = 0644; e.index = bw.index
NewEntry(name, idx) ==
    [Name |-> name, Size |-> 0, Perm |-> DefaultPerm,
     sizeCompressed |-> 0, index |-> EntryIndex(idx), adler |-> <<0, 0>>]

\* an index that does not move with the bytes written
AdvanceIndexStuck(idx, n) == idx

\* bw.index += bw.curr.CompressedCount()
AdvanceIndex(idx, n) == idx + n

\* Writer.finalizeEntry; ok = FALSE when the sink refuses the write made by
\* curr.Close().  Returns the Writer, the sink and the error.
finalizeEntry(w, snk, ok) ==
    IF ~w.curr.open \/ w.entries = <<>>
    THEN [bw |-> w, sink |-> snk, err |-> ErrPanic]
    ELSE IF ~ok
    THEN [bw |-> w, sink |-> snk, err |-> ErrIO]
    ELSE LET i == Len(w.entries)
             c == CompressedBytes(w.curr)
             fin == [w.entries[i] EXCEPT
                        !.sizeCompressed = CompressedCount(c),
                        !.adler = DwAdler(c),
                        !.Size = UncompressedCount(w.curr)]
         IN  [bw |-> [w EXCEPT !.index = AdvanceIndex(w.index, CompressedCount(c)),
                               !.entries = [w.entries EXCEPT ![i] = fin],
                               !.curr = NilWriter],
              sink |-> snk \o c,
              err |-> NoErr]

\* one Table record: the 32 fixed bytes, then the name
EncodeEntry(x) ==
    PutLE(x.sizeCompressed, 8) \o PutLE(x.Size, 8) \o PutLE(x.index, 8)
      \o PutAdler(x.adler) \o PutLE(x.Perm, 2) \o PutLE(Len(x.Name), 2)
      \o x.Name

RECURSIVE EncodeTable(_)
EncodeTable(es) ==
    IF es = <<>> THEN <<>> ELSE EncodeEntry(Head(es)) \o EncodeTable(Tail(es))

\* Writer.writeTable; ok1 / ok2: the sink accepts the write of the open
\* entry's stream / of the Table stream.  Returns Writer, sink, adler, err.
writeTable(w, snk, ok1, ok2) ==
    LET f == finalizeEntry(w, snk, ok1)
        t == Deflate(EncodeTable(f.bw.entries))
    IN  IF f.err # NoErr
        THEN [bw |-> f.bw, sink |-> f.sink, adler |-> <<0, 0>>, err |-> f.err]
        ELSE IF ~ok2
        THEN [bw |-> f.bw, sink |-> f.sink, adler |-> <<0, 0>>, err |-> ErrIO]
        ELSE [bw |-> f.bw, sink |-> f.sink \o t, adler |-> Adler32(t), err |-> NoErr]

\* the Footer bytes written by Writer.Close
EncodeFooter(tableIndex, adler, count) ==
    PutLE(tableIndex, 8) \o PutAdler(adler) \o PutLE(count, 4)

\* a Writer that forgets the error it met
LatchDropped(w, e) == w

Latch(w, e) == [w EXCEPT !.err = e]

\* a Create that any stored error stops
CreateBlockedByAny(e) == e # NoErr

\* the first test of Writer.Create: a stored error other than
\* ErrNoValidEntry is returned at once
CreateBlocked(e) == e # NoErr /\ e # ErrNoValidEntry

\* the first test of SetPerms, Write and Close: any stored error is returned
Blocked(e) == e # NoErr

\* a Close that leaves the Writer usable
ClosedErrMissing == NoErr

\* the error a successful Close leaves in the Writer
ClosedErr == ErrWriteAfterClose

\* NewWriter after the header went out
NewWriter == [index |-> headerSize, entries |-> <<>>, curr |-> NilWriter,
              err |-> ErrNoValidEntry]

\* Writer.Create(name): [bw, sink, err]
WriterCreate(w, snk, name, ok) ==
    IF CreateBlocked(w.err) THEN [bw |-> w, sink |-> snk, err |-> w.err]
    ELSE LET f == IF w.err # ErrNoValidEntry
                  THEN finalizeEntry(w, snk, ok)
                  ELSE [bw |-> w, sink |-> snk, err |-> NoErr]
         IN  IF f.err # NoErr
             THEN [bw |-> Latch(f.bw, f.err), sink |-> f.sink, err |-> f.err]
             ELSE IF ~NameAccepted(name)
             THEN [bw |-> Latch(f.bw, ErrPathIsNotSimple), sink |-> f.sink,
                   err |-> ErrPathIsNotSimple]
             ELSE [bw |-> [f.bw EXCEPT
                             !.err = NoErr,
                             !.entries = Append(f.bw.entries, NewEntry(name, f.bw.index)),
                             !.curr = newDataWriter],
                   sink |-> f.sink, err |-> NoErr]

\* a SetPerms that always reaches the first record
PermTargetFirst(es) == 1

\* the record SetPerms writes to: bw.entries[len(bw.entries)-1]
PermTarget(es) == Len(es)

\* Writer.SetPerms(perm): [bw, err]
WriterSetPerms(w, perm) ==
    IF Blocked(w.err) THEN [bw |-> w, err |-> w.err]
    ELSE IF w.entries = <<>> THEN [bw |-> Latch(w, ErrPanic), err |-> ErrPanic]
    ELSE [bw |-> [w EXCEPT !.entries[PermTarget(w.entries)].Perm = perm], err |-> NoErr]

\* Writer.Write(p): the bytes go into the open entry's compressor: [bw, err, n]
WriterWrite(w, p) ==
    IF Blocked(w.err) THEN [bw |-> w, err |-> w.err, n |-> 0]
    ELSE IF ~w.curr.open THEN [bw |-> Latch(w, ErrPanic), err |-> ErrPanic, n |-> 0]
    ELSE [bw |-> [w EXCEPT !.curr.data = w.curr.data \o p], err |-> NoErr, n |-> Len(p)]

\* Writer.Close(); fail = which of its sink writes is refused (0: none,
\* 1: the open entry's stream, 2: the Table, 3: the Footer): [bw, sink, err]
WriterClose(w, snk, fail) ==
    IF Blocked(w.err) THEN [bw |-> w, sink |-> snk, err |-> w.err]
    ELSE LET t == writeTable(w, snk, fail # 1, fail # 2)
         IN  IF t.err # NoErr
             THEN [bw |-> Latch(t.bw, t.err), sink |-> t.sink, err |-> t.err]
             ELSE IF fail = 3
             THEN [bw |-> Latch(t.bw, ErrIO), sink |-> t.sink, err |-> ErrIO]
             ELSE [bw |-> Latch(t.bw, ClosedErr),
                   sink |-> t.sink \o EncodeFooter(t.bw.index, t.adler, Len(t.bw.entries)),
                   err |-> NoErr]

\* ---------------------------------------------------------------------
\* State
\* ---------------------------------------------------------------------
VARIABLES
    bw,       \* the Writer: [index, entries, curr, err]
    sink,     \* the bytes the underlying io.Writer has received
    ret,      \* the last Writer call and what it returned
    calls,    \* number of Writer calls made
    inputs,   \* what the caller has handed over: <<[name, perm, content]>>
    phase,    \* "write": the Writer is driven; "file": the container lies on
              \* disk; "open": NewReader has run on it
    src,      \* the bytes of the source handed to NewReader
    damage,   \* what happened to the file between writing and reading
    rd,       \* the result of NewReader: [ok, err, Entries, pos, seeks]
    views     \* the entry views opened so far, in order

vars == <<bw, sink, ret, calls, inputs, phase, src, damage, rd, views>>

wvars == <<bw, sink, ret, calls, inputs>>

rvars == <<src, damage, rd, views>>

\* inputs of the Writer calls: "a", "d/b", "a/../b", "../a", "a\b"
Names == { <<97>>, <<100, 47, 98>>, <<97, 47, 46, 46, 47, 98>>,
           <<46, 46, 47, 97>>, <<97, 92, 98>> }
Perms == { 493 }
Chunks == { <<104>>, <<104, 105>> }
ReadSizes == { 1, 3 }

\* what the last Writer call was, its argument and what it returned
Return(op, arg, e, n) == [op |-> op, arg |-> arg, err |-> e, n |-> n]

NoDamage == [kind |-> "none", at |-> 0]

NoReader == [ok |-> FALSE, err |-> NoErr, Entries |-> <<>>, pos |-> 0, seeks |-> 0]

\* NewWriter: the header is written, no entry yet
Init ==
    /\ bw = NewWriter
    /\ sink = magicNumber \o <<Version>>
    /\ ret = Return("NewWriter", <<>>, NoErr, 0)
    /\ calls = 0
    /\ inputs = <<>>
    /\ phase = "write"
    /\ src = <<>>
    /\ damage = NoDamage
    /\ rd = NoReader
    /\ views = <<>>

Create(name) ==
    /\ phase = "write"
    /\ calls < MaxCalls
    /\ \E ok \in BOOLEAN :
         LET r == WriterCreate(bw, sink, name, ok)
         IN  /\ r.err = NoErr => Len(bw.entries) < MaxEntries
             /\ bw' = r.bw
             /\ sink' = r.sink
             /\ ret' = Return("Create", name, r.err, 0)
             /\ inputs' = IF r.err = NoErr
                          THEN Append(inputs, [name |-> name, perm |-> DefaultPerm,
                                               content |-> <<>>])
                          ELSE inputs
    /\ calls' = calls + 1
    /\ UNCHANGED <<phase, rvars>>

SetPerms(perm) ==
    /\ phase = "write"
    /\ calls < MaxCalls
    /\ LET r == WriterSetPerms(bw, perm)
       IN  /\ bw' = r.bw
           /\ ret' = Return("SetPerms", <<perm>>, r.err, 0)
           /\ inputs' = IF r.err = NoErr
                        THEN [inputs EXCEPT ![Len(inputs)].perm = perm]
                        ELSE inputs
    /\ calls' = calls + 1
    /\ UNCHANGED <<phase, sink, rvars>>

Write(p) ==
    /\ phase = "write"
    /\ calls < MaxCalls
    /\ LET r == WriterWrite(bw, p)
       IN  /\ r.err = NoErr => Len(bw.curr.data) + Len(p) <= MaxContent
           /\ bw' = r.bw
           /\ ret' = Return("Write", p, r.err, r.n)
           /\ inputs' = IF r.err = NoErr
                        THEN [inputs EXCEPT ![Len(inputs)].content = @ \o p]
                        ELSE inputs
    /\ calls' = calls + 1
    /\ UNCHANGED <<phase, sink, rvars>>

Close ==
    /\ phase = "write"
    /\ calls < MaxCalls
    /\ \E fail \in 0..3 :
         LET r == WriterClose(bw, sink, fail)
         IN  /\ bw' = r.bw
             /\ sink' = r.sink
             /\ ret' = Return("Close", <<>>, r.err, 0)
    /\ calls' = calls + 1
    /\ UNCHANGED <<phase, inputs, rvars>>

\* ---------------------------------------------------------------------
\* From the Writer's output to a Reader
\* ---------------------------------------------------------------------
\* the file the successful Close left behind becomes the Reader's source
Reopen ==
    /\ phase = "write"
    /\ ret = Return("Close", <<>>, NoErr, 0)
    /\ phase' = "file"
    /\ src' = sink
    /\ calls' = MaxCalls
    /\ UNCHANGED <<bw, sink, ret, inputs, damage, rd, views>>

FlipBit(v, bit) == IF (v \div bit) % 2 = 0 THEN v + bit ELSE v - bit

FlipBits == {1, 128}

\* one byte of the stored file (before the Footer) changes; a second byte
\* may change only inside the header
CorruptByte(i, bit) ==
    /\ phase = "file"
    /\ i \in 1..(Len(src) - footerSize)
    /\ \/ damage = NoDamage
       \/ damage.kind = "byte" /\ damage.at < i /\ i <= headerSize
    /\ src' = [src EXCEPT ![i] = FlipBit(src[i], bit)]
    /\ damage' = IF damage = NoDamage THEN [kind |-> "byte", at |-> i] ELSE damage
    /\ UNCHANGED <<wvars, phase, rd, views>>

\* the stored file is cut to its first n bytes
Truncate(n) ==
    /\ phase = "file"
    /\ damage = NoDamage
    /\ n < Len(src)
    /\ src' = Take(src, n)
    /\ damage' = [kind |-> "trunc", at |-> n]
    /\ UNCHANGED <<wvars, phase, rd, views>>

\* NewReader(r)
Open ==
    /\ phase = "file"
    /\ phase' = "open"
    /\ rd' = NewReader(src, maxMatchOffset)
    /\ UNCHANGED <<wvars, src, damage, views>>

\* no Read has been made on the view after one of its Reads returned an error
NoReturn == [n |-> -1, err |-> NoErr]

\* an EntryReader that leaves the cursor where it is
SeekSkipped(pos, index) == pos

\* br.r.Seek(int64(e.index), io.SeekStart): the cursor after the seek
SeekTo(pos, index) == index

\* Reader.EntryReader(&Entries[i]): seek to the entry, wrap the source.
\* shared: the view was in use together with another view of the Reader
\* (one was opened while the other was not yet closed); from: the offset
\* of the source from which the view's buffer was filled; ret: what the
\* last Read made after a Read had returned an error returned.
OpenView(i) ==
    /\ phase = "open"
    /\ rd.ok
    /\ i \in DOMAIN rd.Entries
    /\ Len(views) < MaxViews
    /\ rd' = [rd EXCEPT !.pos = SeekTo(rd.pos, rd.Entries[i].index),
                        !.seeks = rd.seeks + 1]
    /\ views' = Append([v \in DOMAIN views |->
                          [views[v] EXCEPT !.shared = @ \/ ~views[v].closed]],
                  [e |-> i, d |-> NewFlate(<<>>), filled |-> FALSE,
                   count |-> rd.Entries[i].Size, adler |-> rd.Entries[i].adler,
                   err |-> NoErr, got |-> <<>>, closed |-> FALSE, closeErr |-> NoErr,
                   ret |-> NoReturn,
                   shared |-> \E v \in DOMAIN views : ~views[v].closed,
                   from |-> 0])
    /\ UNCHANGED <<wvars, phase, src, damage>>

\* EntryReader called as extractEntries calls it: the view before it is closed
EntryReader(i) ==
    /\ \A v \in DOMAIN views : views[v].closed
    /\ OpenView(i)

\* a fill from the start of the source, as if the seek had not happened
FillFromStart(f, pos) == SubSeq(f, 1, Min(Len(f), defaultBufSize))

\* the first fill of the bufio.Reader inside adlerReader, from the cursor
Fill(f, pos) == SubSeq(f, Min(pos, Len(f)) + 1, Min(Len(f), pos + defaultBufSize))

\* a Read that passes the decoder's error on as it is
ReadErrorPassed(e, count) == e

\* the switch at the end of entryReader.Read
ReadError(e, count) ==
    IF e = EOF /\ count > 0 THEN ErrUnexpectedEOF
    ELSE IF e = NoErr /\ count = 0 THEN EOF
    ELSE e

\* entryReader.Read(b) with len(b) = n on a view that has no stored error
ViewRead(v, n) ==
    /\ phase = "open"
    /\ v \in DOMAIN views
    /\ ~views[v].closed
    /\ views[v].err = NoErr
    /\ LET m == Min(n, views[v].count)
           pull == m > 0
           fill == pull /\ ~views[v].filled
           d0 == IF fill THEN NewFlate(Fill(src, rd.pos)) ELSE views[v].d
           r == IF pull THEN FlateRead(d0, m, maxMatchOffset)
                ELSE [d |-> d0, out |-> <<>>, err |-> NoErr]
           left == views[v].count - Len(r.out)
       IN  /\ views' = [views EXCEPT ![v] =
                          [views[v] EXCEPT !.d = r.d,
                                           !.filled = views[v].filled \/ fill,
                                           !.from = IF fill THEN rd.pos ELSE @,
                                           !.count = left,
                                           !.got = views[v].got \o r.out,
                                           !.err = ReadError(r.err, left)]]
           /\ rd' = IF fill
                    THEN [rd EXCEPT !.pos = Min(Len(src), rd.pos + defaultBufSize)]
                    ELSE rd
    /\ UNCHANGED <<wvars, phase, src, damage>>

\* a Read after the end that reports success
StoredReturnNil(e) == [n |-> 0, err |-> NoErr]

\* n = 0; err = er.err; return
StoredReturn(e) == [n |-> 0, err |-> e]

\* entryReader.Read(b) on a view whose Read has returned an error: n = 0
\* and the stored error, nothing else happens
ViewReadAgain(v, n) ==
    /\ phase = "open"
    /\ v \in DOMAIN views
    /\ ~views[v].closed
    /\ views[v].err # NoErr
    /\ views' = [views EXCEPT ![v] =
                   [views[v] EXCEPT !.ret = StoredReturn(views[v].err)]]
    /\ UNCHANGED <<wvars, phase, src, damage, rd>>

\* the comparison in entryReader.Close
CloseError(want, got) == IF want # got THEN ErrInvalidChecksum ELSE NoErr

\* entryReader.Close(), called as extractEntries calls it: after the view
\* was read until it returned an error or end-of-stream
ViewClose(v) ==
    /\ phase = "open"
    /\ v \in DOMAIN views
    /\ ~views[v].closed
    /\ views[v].err # NoErr
    /\ views' = [views EXCEPT ![v] =
                   [views[v] EXCEPT !.closed = TRUE,
                                    !.closeErr = CloseError(views[v].adler, views[v].d.adler)]]
    /\ UNCHANGED <<wvars, phase, src, damage, rd>>

WriterNext ==
    \/ \E name \in Names : Create(name)
    \/ \E perm \in Perms : SetPerms(perm)
    \/ \E p \in Chunks : Write(p)
    \/ Close

ReaderNext ==
    \/ Open
    \/ \E i \in 1..MaxEntries : EntryReader(i)
    \/ \E v \in 1..MaxViews, n \in ReadSizes : ViewRead(v, n)
    \/ \E v \in 1..MaxViews : ViewClose(v)

Next == WriterNext \/ Reopen \/ ReaderNext

\* a Writer is driven, closed, and its output is read back
Spec == Init /\ [][Next]_vars

\* ---------------------------------------------------------------------
\* Containers on disk
\* ---------------------------------------------------------------------
\* one entry of a caller's input: Create(name), SetPerms(perm), Write(content)
WriteEntry(st, x) ==
    LET c == WriterCreate(st.bw, st.sink, x.name, TRUE)
        q == WriterSetPerms(c.bw, x.perm)
        w == WriterWrite(q.bw, x.content)
    IN  [bw |-> w.bw, sink |-> c.sink]

RECURSIVE WriteEntries(_, _)
WriteEntries(st, ins) ==
    IF ins = <<>> THEN st ELSE WriteEntries(WriteEntry(st, Head(ins)), Tail(ins))

\* NewWriter, the entries of ins in order, Close: [bw, sink, err]
Container(ins) ==
    LET st == WriteEntries([bw |-> NewWriter, sink |-> magicNumber \o <<Version>>], ins)
    IN  WriterClose(st.bw, st.sink, 0)

\* the entries of the scenario: "a" holding "hi..." with the default
\* permission bits, "d/b" holding nothing with 0755
ScenarioText == <<104, 105, 33, 63, 46, 44>>

EntryChoices ==
    { [name |-> <<97>>, perm |-> DefaultPerm, content |-> Take(ScenarioText, MaxContent)],
      [name |-> <<100, 47, 98>>, perm |-> 493, content |-> <<>>] }

ScenarioInputs == UNION { [1..n -> EntryChoices] : n \in 1..MaxEntries }

\* names long enough for the Table to reach the size of the decoder's window
LongNameLens == { maxMatchOffset - entrySize - 1, maxMatchOffset - entrySize }

LongEntry(n) ==
    [name |-> [i \in 1..n |-> 97], perm |-> DefaultPerm,
     content |-> Take(ScenarioText, MaxContent)]

\* one long name alone, and a name one byte longer followed by a second entry
LongInputs ==
    { << LongEntry(n) >> : n \in LongNameLens }
      \cup { << LongEntry(maxMatchOffset - entrySize + 1),
                [name |-> <<98>>, perm |-> DefaultPerm, content |-> <<>>] >> }

\* a container written from one of the input lists lies on disk
InitFile(choices) ==
    \E ins \in choices :
        LET c == Container(ins)
        IN  /\ bw = c.bw
            /\ sink = c.sink
            /\ ret = Return("Close", <<>>, c.err, 0)
            /\ calls = MaxCalls
            /\ inputs = ins
            /\ phase = "file"
            /\ src = c.sink
            /\ damage = NoDamage
            /\ rd = NoReader
            /\ views = <<>>

InitDamaged == InitFile(ScenarioInputs)

DamageNext ==
    \/ \E i \in DOMAIN src, bit \in FlipBits : CorruptByte(i, bit)
    \/ \E n \in 0..Len(src) : Truncate(n)

NextDamaged == DamageNext \/ ReaderNext

\* a written container is damaged on disk, then opened and read
SpecDamaged == InitDamaged /\ [][NextDamaged]_vars

\* views of one Reader used side by side: EntryReader at any time, Read
\* also after a Read returned an error
SharedNext ==
    \/ Open
    \/ \E i \in 1..MaxEntries : OpenView(i)
    \/ \E v \in 1..MaxViews, n \in ReadSizes : ViewRead(v, n)
    \/ \E v \in 1..MaxViews, n \in ReadSizes : ViewReadAgain(v, n)
    \/ \E v \in 1..MaxViews : ViewClose(v)

NextShared == DamageNext \/ SharedNext

\* a written container, possibly damaged, read through views side by side
SpecShared == InitDamaged /\ [][NextShared]_vars

InitLarge == InitFile(ScenarioInputs \cup LongInputs)

NextLarge == ReaderNext

\* containers with a large Table are opened and read
SpecLarge == InitLarge /\ [][NextLarge]_vars

\* a name one byte longer than name_length can express
WideInputs == { << LongEntry(MaxUint16 + 1) >> }

\* a Writer has just been closed after the calls for one of the input lists
InitWide ==
    \E ins \in ScenarioInputs \cup WideInputs :
        LET c == Container(ins)
        IN  /\ bw = c.bw
            /\ sink = c.sink
            /\ ret = Return("Close", <<>>, c.err, 0)
            /\ calls = MaxCalls
            /\ inputs = ins
            /\ phase = "write"
            /\ src = <<>>
            /\ damage = NoDamage
            /\ rd = NoReader
            /\ views = <<>>

NextWide == Reopen \/ ReaderNext

\* containers, one of them with a very long name, are written, opened and
\* read
SpecWide == InitWide /\ [][NextWide]_vars

\* ---------------------------------------------------------------------
\* Properties
\* ---------------------------------------------------------------------
\* the record the Reader lists for the caller's input x
EntryMatches(e, x) ==
    e.Name = x.name /\ e.Perm = x.perm /\ e.Size = Len(x.content)

\* view v has been read until Read returned something other than nil
ReadToEnd(v) == views[v].err # NoErr

\* C1: round trip.  For every list of entries written through Create,
\* SetPerms, Write and a successful Close, NewReader over the undamaged
\* bytes succeeds, Entries holds the same names, permission bits and sizes in
\* insertion order, and every view read to its end has returned exactly the
\* content written and ended with io.EOF.
C1_RoundTrip ==
    (phase = "open" /\ damage = NoDamage) =>
        /\ rd.ok
        /\ rd.err = NoErr
        /\ Len(rd.Entries) = Len(inputs)
        /\ \A i \in DOMAIN inputs :
              i \in DOMAIN rd.Entries /\ EntryMatches(rd.Entries[i], inputs[i])
        /\ \A v \in DOMAIN views :
              ReadToEnd(v) =>
                  /\ views[v].err = EOF
                  /\ views[v].got = inputs[views[v].e].content

\* C2: every entry verifies.  On an undamaged container, the Close of a view
\* that was read to its end returns nil, also for an entry of size 0.
C2_EveryEntryVerifies ==
    \A v \in DOMAIN views :
        (damage = NoDamage /\ views[v].closed) => views[v].closeErr = NoErr

\* exactly one byte of the file was changed, and it lies in the compressed
\* region [index, index + sizeCompressed) of the k-th entry written
DamagedEntry(k) ==
    /\ damage.kind = "byte"
    /\ k \in DOMAIN bw.entries
    /\ damage.at > bw.entries[k].index
    /\ damage.at <= bw.entries[k].index + bw.entries[k].sizeCompressed

\* exactly one byte of the file was changed, and it lies in the Table region
DamagedTable ==
    /\ damage.kind = "byte"
    /\ damage.at > bw.index
    /\ damage.at <= Len(sink) - footerSize

\* C3: entry-scoped corruption.  With one byte changed inside one entry's
\* compressed region, NewReader still succeeds with the entry list the Writer
\* recorded, the Close of a view of that entry read to its end returns
\* ErrInvalidChecksum, and a view of any other entry read to its end has
\* returned the original bytes and its Close returns nil.
C3_EntryScopedCorruption ==
    \A k \in DOMAIN bw.entries :
        (phase = "open" /\ DamagedEntry(k)) =>
            /\ rd.ok
            /\ rd.Entries = bw.entries
            /\ \A v \in DOMAIN views :
                  /\ (views[v].e = k /\ views[v].closed)
                        => views[v].closeErr = ErrInvalidChecksum
                  /\ (views[v].e # k /\ ReadToEnd(v))
                        => /\ views[v].err = EOF
                           /\ views[v].got = inputs[views[v].e].content
                  /\ (views[v].e # k /\ views[v].closed)
                        => views[v].closeErr = NoErr

\* C4: table corruption.  With one byte changed inside the Table region,
\* NewReader fails with ErrInvalidChecksum and returns no Reader.
C4_TableCorruption ==
    (phase = "open" /\ DamagedTable) =>
        /\ ~rd.ok
        /\ rd.err = ErrInvalidChecksum
        /\ rd.Entries = <<>>

\* C5: truncation after the header.  On a source holding the 4 valid header
\* bytes and nothing else, NewReader fails with io.ErrUnexpectedEOF and
\* returns no Reader.
C5_TruncatedAfterHeader ==
    (phase = "open" /\ damage = [kind |-> "trunc", at |-> headerSize]) =>
        /\ ~rd.ok
        /\ rd.err = ErrUnexpectedEOF
        /\ rd.Entries = <<>>

\* the name has a ".." segment, is not a local relative path, or has a backslash
HasDotDot(name) == \E i \in DOMAIN Split(name) : Split(name)[i] = DotDotSeg

Rejectable(name) == HasDotDot(name) \/ ~IsLocal(name) \/ HasBackslash(name)

\* this step is one call of Create, SetPerms, Write or Close
WriterCall == phase' = "write" /\ calls' = calls + 1

\* C6: name rejection.  A Create that reaches its name test (no stored error
\* stops it, the sink takes the previous entry's bytes) with a name that has
\* a parent-traversal segment, is not local or has a backslash returns
\* ErrPathIsNotSimple, appends no record, writes nothing beyond the previous
\* entry's stream, and leaves the Writer failed; no successful Close ever
\* lists such a name.
C6_NameRejection ==
    [][ /\ (/\ WriterCall
            /\ ret'.op = "Create"
            /\ ~CreateBlocked(bw.err)
            /\ ret'.err # ErrIO
            /\ Rejectable(ret'.arg))
          => /\ ret'.err = ErrPathIsNotSimple
             /\ Len(bw'.entries) = Len(bw.entries)
             /\ sink' \in {sink, sink \o CompressedBytes(bw.curr)}
             /\ bw'.err = ErrPathIsNotSimple
        /\ (WriterCall /\ ret'.op = "Close" /\ ret'.err = NoErr)
          => \A i \in DOMAIN bw'.entries : ~Rejectable(bw'.entries[i].Name)
      ]_vars

\* C7 as stated: once a Writer call has returned an error, the next call
\* returns the same error, writes nothing and changes nothing in the Writer.
C7_ErrorLatching ==
    [][ (WriterCall /\ ret.err # NoErr)
          => (ret'.err = ret.err /\ sink' = sink /\ bw' = bw) ]_vars

\* C7, amended: once a Writer call has returned an error other than
\* ErrNoValidEntry, the next call returns the same error, writes nothing and
\* changes nothing in the Writer (so every later call does).
C7_ErrorLatchingAmended ==
    [][ (WriterCall /\ ret.err # NoErr /\ ret.err # ErrNoValidEntry)
          => (ret'.err = ret.err /\ sink' = sink /\ bw' = bw) ]_vars

\* a Close has returned the error an earlier Create latched
C7_Witness == ret.op = "Close" /\ ret.err = ErrPathIsNotSimple

\* C8: closed is terminal.  After a Close that returned nil, every later
\* Create, SetPerms, Write and Close returns ErrWriteAfterClose and leaves the
\* sink's bytes as they are (Table and Footer are written once).
C8_ClosedIsTerminal ==
    [][ (/\ WriterCall
         /\ \/ ret.op = "Close" /\ ret.err = NoErr
            \/ ret.err = ErrWriteAfterClose)
          => (ret'.err = ErrWriteAfterClose /\ sink' = sink) ]_vars

\* a Create after the successful Close was refused
C8_Witness == ret.op = "Create" /\ ret.err = ErrWriteAfterClose

\* the compressed sizes of the first n entries, added up
RECURSIVE SumCompressed(_, _)
SumCompressed(es, n) ==
    IF n = 0 THEN 0 ELSE es[n].sizeCompressed + SumCompressed(es, n - 1)

\* entry i has been finalized: a later Create or Close closed its stream
Finalized(i) == i < Len(bw.entries) \/ ~bw.curr.open

\* the Footer at the end of the sink
SinkFooter == SubSeq(sink, Len(sink) - footerSize + 1, Len(sink))

\* C9: offset invariant.  Each entry's offset is 4 plus the compressed sizes
\* of the entries before it, and is the number of bytes the sink held when
\* its stream began; offsets strictly increase; a finalized entry's
\* compressed size is the number of bytes written for it, found at its
\* offset; after a successful Close the Footer's table offset is 4 plus all
\* compressed sizes, where the Table's first byte lies.
C9_OffsetInvariant ==
    /\ \A i \in DOMAIN bw.entries :
          /\ bw.entries[i].index = headerSize + SumCompressed(bw.entries, i - 1)
          /\ i > 1 => bw.entries[i - 1].index < bw.entries[i].index
          /\ ~Finalized(i) => bw.entries[i].index = Len(sink)
          /\ Finalized(i) =>
                /\ bw.entries[i].sizeCompressed = Len(Deflate(inputs[i].content))
                /\ SubSeq(sink, bw.entries[i].index + 1,
                          bw.entries[i].index + bw.entries[i].sizeCompressed)
                     = Deflate(inputs[i].content)
    /\ (ret.op = "Close" /\ ret.err = NoErr) =>
          /\ GetLE(SubSeq(SinkFooter, 1, 8))
               = headerSize + SumCompressed(bw.entries, Len(bw.entries))
          /\ SubSeq(sink, GetLE(SubSeq(SinkFooter, 1, 8)) + 1, Len(sink) - footerSize)
               = Deflate(EncodeTable(bw.entries))

\* a container of two entries, the first with content, was closed
C9_Witness ==
    /\ ret.op = "Close" /\ ret.err = NoErr
    /\ Len(bw.entries) = 2
    /\ bw.entries[1].Size > 0
    /\ bw.entries[2].index > bw.entries[1].index

\* C10: header validation comes first.  On a source that holds a whole
\* header, a wrong magic makes NewReader return ErrUnknownFormat, otherwise a
\* wrong version makes it return ErrUnsupportedVersion; in both cases there
\* is no Reader, no seek was made and nothing past the header was read.
C10_HeaderFirst ==
    (phase = "open" /\ Len(src) >= headerSize) =>
        /\ SubSeq(src, 1, 3) # magicNumber =>
              /\ rd.err = ErrUnknownFormat
              /\ ~rd.ok /\ rd.Entries = <<>>
              /\ rd.seeks = 0 /\ rd.pos = headerSize
        /\ (SubSeq(src, 1, 3) = magicNumber /\ src[4] # Version) =>
              /\ rd.err = ErrUnsupportedVersion
              /\ ~rd.ok /\ rd.Entries = <<>>
              /\ rd.seeks = 0 /\ rd.pos = headerSize

\* a source with both a wrong magic and a wrong version was refused
C10_Witness ==
    /\ phase = "open"
    /\ Len(src) >= headerSize
    /\ SubSeq(src, 1, 3) # magicNumber
    /\ src[4] # Version
    /\ rd.err = ErrUnknownFormat

\* this step is a Read on view v
ReadStep(v) ==
    /\ v \in DOMAIN views
    /\ v \in DOMAIN views'
    /\ ~views[v].closed /\ ~views'[v].closed
    /\ [views'[v] EXCEPT !.shared = views[v].shared] # views[v]

\* the uncompressed size the Table declares for view v's entry
Declared(v) == rd.Entries[views[v].e].Size

\* what the decoder of a view's state x returned with the bytes of its last
\* Read: its error once everything decoded was handed out, nil before
DecoderErr(x) == IF x.d.toRead = <<>> THEN x.d.err ELSE NoErr

\* no view has handed out more than the declared count, and io.EOF is
\* reported only with the declared count delivered
CountKept ==
    \A v \in DOMAIN views :
        /\ Len(views[v].got) + views[v].count = Declared(v)
        /\ views[v].err = EOF => views[v].count = 0

\* a Read after which the decoder has ended with bytes still owed returns
\* io.ErrUnexpectedEOF
ShortStreamFails(v) ==
    (ReadStep(v) /\ DecoderErr(views'[v]) = EOF /\ views'[v].count > 0)
        => views'[v].err = ErrUnexpectedEOF

\* C11 as stated: a view never hands out more than the declared count; a
\* stream that ends early makes Read return io.ErrUnexpectedEOF; the Read
\* that delivers the last declared byte reports io.EOF.
C11_DeclaredCount ==
    [][ /\ CountKept'
        /\ \A v \in DOMAIN views :
              /\ ShortStreamFails(v)
              /\ (ReadStep(v) /\ views'[v].count = 0) => views'[v].err = EOF
      ]_vars

\* C11, amended: as above, but the Read that delivers the last declared byte
\* reports io.EOF unless the decoder returned an error of its own (other
\* than io.EOF) with those bytes; then Read reports that error.
C11_DeclaredCountAmended ==
    [][ /\ CountKept'
        /\ \A v \in DOMAIN views :
              /\ ShortStreamFails(v)
              /\ (ReadStep(v) /\ views'[v].count = 0) =>
                    views'[v].err = IF DecoderErr(views'[v]) \in {NoErr, EOF}
                                    THEN EOF
                                    ELSE DecoderErr(views'[v])
      ]_vars

\* a view was refused because its stream ended before the declared count,
\* with source bytes still buffered behind the end of that stream
C11_Witness ==
    \E v \in DOMAIN views :
        /\ views[v].err = ErrUnexpectedEOF
        /\ views[v].d.err = EOF
        /\ views[v].count > 0
        /\ views[v].d.in # <<>>

\* what one Read of the whole declared size returns for the entry e of the
\* source as it is, taken alone: the bytes, Read's error, the checksum of
\* the compressed bytes pulled
Alone(e) ==
    IF e.Size = 0
    THEN [got |-> <<>>, err |-> EOF, adler |-> AdlerInit]
    ELSE [got |-> FlateRead(NewFlate(Take(Drop(src, e.index), defaultBufSize)),
                            e.Size, maxMatchOffset).out,
          err |-> ReadError(
                    FlateRead(NewFlate(Take(Drop(src, e.index), defaultBufSize)),
                              e.Size, maxMatchOffset).err,
                    e.Size - Len(FlateRead(NewFlate(Take(Drop(src, e.index), defaultBufSize)),
                                           e.Size, maxMatchOffset).out)),
          adler |-> FlateRead(NewFlate(Take(Drop(src, e.index), defaultBufSize)),
                              e.Size, maxMatchOffset).d.adler]

\* the views were used one after another: each was closed before the next
\* was opened
OneAfterAnother ==
    \A v \in DOMAIN views : v < Len(views) => views[v].closed

\* C12: random access.  With views used one after another, in any order and
\* any number of times, a view read to its end has returned what its entry
\* yields taken alone (on an undamaged container: the content written), and
\* its Close returns what the entry's Close returns taken alone, whatever
\* was opened before and wherever the cursor was left.
C12_RandomAccess ==
    OneAfterAnother =>
        \A v \in DOMAIN views :
            /\ ReadToEnd(v) =>
                  /\ views[v].got = Alone(rd.Entries[views[v].e]).got
                  /\ views[v].err = Alone(rd.Entries[views[v].e]).err
                  /\ damage = NoDamage => views[v].got = inputs[views[v].e].content
            /\ views[v].closed =>
                  views[v].closeErr
                    = CloseError(rd.Entries[views[v].e].adler,
                                 Alone(rd.Entries[views[v].e]).adler)

\* the second entry was read and closed, then the first one was
C12_Witness ==
    /\ Len(views) = 2
    /\ views[1].e = 2 /\ views[2].e = 1
    /\ views[1].closed /\ views[2].closed
    /\ views[2].got # <<>>

\* the Footer of the source and its fields
SrcFooter == SubSeq(src, Len(src) - footerSize + 1, Len(src))

FooterTable == GetLE(SubSeq(SrcFooter, 1, 8))

FooterAdler == GetAdler(SubSeq(SrcFooter, 9, 12))

FooterCount == GetLE(SubSeq(SrcFooter, 13, 16))

\* NewReader returned a Reader: as many records as the Footer counts, the
\* checksum of the compressed Table equal to the Footer's, and on an
\* undamaged container every record whole, as the Writer recorded it
WholeReader ==
    /\ rd.ok
    /\ rd.err = NoErr
    /\ Len(src) >= footerSize
    /\ Len(rd.Entries) = FooterCount
    /\ Adler32(SubSeq(src, FooterTable + 1, Len(src) - footerSize)) = FooterAdler
    /\ damage = NoDamage => rd.Entries = bw.entries

\* NewReader returned nil and an error
NoReaderAtAll == ~rd.ok /\ rd.err # NoErr /\ rd.Entries = <<>>

\* C13: open is all-or-nothing.  NewReader returns either a Reader with the
\* whole, checksum-verified entry list or no Reader and an error; whatever
\* views did afterwards, the Reader's entry list is still what NewReader
\* returned for the source.
C13_AllOrNothing ==
    phase = "open" =>
        /\ WholeReader \/ NoReaderAtAll
        /\ rd.ok = NewReader(src, maxMatchOffset).ok
        /\ rd.Entries = NewReader(src, maxMatchOffset).Entries

\* everything the Table's stream decodes to, and how the decoding ended
TableDecoded == FlateRead(NewFlate(Drop(src, FooterTable)), Huge, maxMatchOffset)

\* the outcome the asymmetry prescribes for decoding count records from
\* the bytes b, from record i on: end-of-input is met by a read that takes
\* the last byte (or finds none); it is accepted only on the name read of
\* the final record, exactly at the end of the name
RECURSIVE Prescribed(_, _, _)
Prescribed(b, i, count) ==
    IF i >= count THEN NoErr
    ELSE IF Len(b) <= entrySize THEN ErrUnexpectedEOF
    ELSE IF Len(b) - entrySize > NameLength(Take(b, entrySize))
    THEN Prescribed(Drop(b, entrySize + NameLength(Take(b, entrySize))), i + 1, count)
    ELSE IF i = count - 1 /\ Len(b) - entrySize = NameLength(Take(b, entrySize))
    THEN NoErr
    ELSE ErrUnexpectedEOF

\* NewReader got as far as decoding a Table whose stream ends cleanly
TableReadCleanly ==
    /\ phase = "open"
    /\ damage.kind # "trunc"
    /\ rd.seeks >= 2
    /\ TableDecoded.err = EOF

\* C14: final-record asymmetry.  When the Table's stream decodes cleanly,
\* NewReader fails with io.ErrUnexpectedEOF exactly when end-of-input is met
\* on the fixed part of a record, on the name of a non-final record, or
\* before the end of the final record's name; otherwise the loop passes
\* and only the checksum comparison can still fail.
C14_FinalRecordAsymmetry ==
    TableReadCleanly =>
        IF Prescribed(TableDecoded.out, 0, FooterCount) = ErrUnexpectedEOF
        THEN rd.err = ErrUnexpectedEOF
        ELSE rd.err \in {NoErr, ErrInvalidChecksum}

\* the previous entry as finalizeEntry leaves it: compressed size,
\* uncompressed size and checksum of its stream recorded
FinalizedRecord(x, dw) ==
    [x EXCEPT !.sizeCompressed = Len(Deflate(dw.data)),
              !.Size = Len(dw.data),
              !.adler = Adler32(Deflate(dw.data))]

\* C15: single open entry and record immutability.  An open stream belongs
\* to the last record and to no other; a Create on a Writer with an open
\* entry first closes that entry's stream, records its compressed size,
\* uncompressed size and checksum and advances the running offset by the
\* compressed size, and only then begins the new entry at that offset; no
\* call changes a finalized record; Write and SetPerms leave the number of
\* records and every record but the last alone.
C15_RecordImmutability ==
    [][ WriterCall =>
          /\ bw'.curr.open => bw'.entries # <<>>
          /\ \A i \in DOMAIN bw.entries :
                Finalized(i) => /\ i \in DOMAIN bw'.entries
                                /\ bw'.entries[i] = bw.entries[i]
          /\ (ret'.op = "Create" /\ bw.curr.open
                 /\ ret'.err \in {NoErr, ErrPathIsNotSimple}) =>
                LET i == Len(bw.entries)
                    c == Deflate(bw.curr.data)
                IN  /\ bw'.entries[i] = FinalizedRecord(bw.entries[i], bw.curr)
                    /\ bw'.index = bw.index + Len(c)
                    /\ sink' = sink \o c
                    /\ ret'.err = NoErr =>
                          /\ Len(bw'.entries) = i + 1
                          /\ bw'.entries[i + 1].index = bw.index + Len(c)
                          /\ bw'.curr = newDataWriter
                    /\ ret'.err # NoErr =>
                          /\ Len(bw'.entries) = i
                          /\ ~bw'.curr.open
          /\ ret'.op \in {"Write", "SetPerms"} =>
                /\ Len(bw'.entries) = Len(bw.entries)
                /\ \A i \in DOMAIN bw.entries :
                      i < Len(bw.entries) => bw'.entries[i] = bw.entries[i]
                /\ bw'.index = bw.index /\ sink' = sink
      ]_vars

\* permissions were set on the second entry after the first, which has
\* content, was finalized by the second Create
C15_Witness ==
    /\ ret.op = "SetPerms" /\ ret.err = NoErr
    /\ Len(bw.entries) = 2
    /\ bw.entries[1].Size > 0
    /\ bw.entries[2].Perm # DefaultPerm
    /\ bw.entries[1].Perm = DefaultPerm

\* s is a prefix of t
IsPrefix(s, t) == Len(s) <= Len(t) /\ s = SubSeq(t, 1, Len(s))

\* view v has returned nothing but bytes of its entry's content, in order,
\* and no error but end-of-stream after the whole content
OwnContent(v) ==
    /\ IsPrefix(views[v].got, inputs[views[v].e].content)
    /\ views[v].err \in {NoErr, EOF}
    /\ views[v].err = EOF => views[v].got = inputs[views[v].e].content

\* C16: shared cursor between views.  On an undamaged container a view
\* fills its buffer from wherever the Reader's one cursor stands at that
\* moment; a view used alone (no other view open from its EntryReader to
\* its Close) fills from its own entry's offset and returns its entry's
\* content without failing, so a view that returns other bytes or fails
\* was in use together with another view.
C16_SharedCursor ==
    damage = NoDamage =>
        \A v \in DOMAIN views :
            /\ (views[v].filled /\ ~views[v].shared) =>
                  views[v].from = rd.Entries[views[v].e].index
            /\ ~views[v].shared => OwnContent(v)

\* view 2 was opened on another entry before view 1 had pulled anything;
\* view 1 then read from the position set for view 2 and returned bytes
\* that are not its entry's content, or failed
C16_Witness ==
    /\ damage = NoDamage
    /\ Len(views) = 2
    /\ views[1].e # views[2].e
    /\ views[1].shared /\ views[1].filled
    /\ views[1].from = rd.Entries[views[2].e].index
    /\ ~OwnContent(1)

\* the name_length a Table record of the Writer carries for entry x
EmittedNameLength(x) == NameLength(EncodeEntry(x))

\* C17: name length field.  Every Table record the Writer has emitted
\* carries a name_length equal to the byte length of the name that follows
\* it: no record is emitted for a name longer than 65535 bytes and the
\* conversion to 16 bits does not wrap.
C17_NameLengthField ==
    (ret.op = "Close" /\ ret.err = NoErr) =>
        \A i \in DOMAIN bw.entries :
            /\ Len(bw.entries[i].Name) <= MaxUint16
            /\ EmittedNameLength(bw.entries[i]) = Len(bw.entries[i].Name)

\* what the calls do on a Writer without an entry: Write, SetPerms and
\* Close return ErrNoValidEntry and change neither the Writer nor the sink;
\* a Create with an acceptable name opens the first entry at offset 4
NoEntryCalls ==
    /\ ret'.op \in {"Write", "SetPerms", "Close"} =>
          /\ ret'.err = ErrNoValidEntry /\ ret'.n = 0
          /\ sink' = sink /\ bw' = bw
    /\ (ret'.op = "Create" /\ NameAccepted(ret'.arg)) =>
          /\ ret'.err = NoErr
          /\ bw'.err = NoErr
          /\ bw'.entries = << NewEntry(ret'.arg, headerSize) >>
          /\ bw'.curr = newDataWriter
          /\ bw'.index = headerSize
          /\ sink' = sink

\* C18: no-entry state.  As long as no Create has succeeded, Write,
\* SetPerms and Close return ErrNoValidEntry, write nothing and leave the
\* Writer as it is, and a following Create with a valid name succeeds and
\* opens the first entry at offset 4.
C18_NoEntryState ==
    [][ (WriterCall /\ inputs = <<>>) => NoEntryCalls ]_vars

\* C18 for a Writer on which Create has not been called: its stored error
\* is ErrNoValidEntry, its sink holds the header alone, and the calls
\* behave as above; a Writer without a successful Create that is not in
\* this state has had a Create rejected for its name, and a successful
\* Close always had an entry to write.
C18_NoEntryStateAmended ==
    [][ WriterCall =>
          /\ bw.err = ErrNoValidEntry =>
                /\ bw = NewWriter /\ sink = magicNumber \o <<Version>>
                /\ NoEntryCalls
          /\ (inputs = <<>> /\ bw.err # ErrNoValidEntry) =>
                /\ bw.err = ErrPathIsNotSimple
                /\ ret'.err = ErrPathIsNotSimple /\ bw' = bw /\ sink' = sink
          /\ (ret'.op = "Close" /\ ret'.err = NoErr) => bw.entries # <<>>
      ]_vars

\* the first Create succeeded as the fourth call: the three calls before
\* it were refused for want of an entry and left no error behind
C18_Witness ==
    /\ ret.op = "Create" /\ ret.err = NoErr
    /\ calls = 4
    /\ Len(bw.entries) = 1
    /\ bw.entries[1].index = headerSize

\* this step is a Read on view v after one of its Reads returned an error
RereadStep(v) ==
    /\ v \in DOMAIN views /\ v \in DOMAIN views'
    /\ views'[v].ret # views[v].ret

\* C19: sticky end state of an entry view.  Once a Read of a view has
\* returned an error, that error stays the view's; every later Read
\* returns 0 bytes and the same error and moves neither the Reader's cursor
\* nor the view's decoder, so the bytes delivered, the bytes consumed from
\* the source and the checksum over them stay as they are; a view never
\* delivers more bytes than its entry declares.
C19_StickyEnd ==
    [][ \A v \in DOMAIN views :
          /\ Len(views'[v].got) <= rd.Entries[views[v].e].Size
          /\ views[v].ret.err # NoErr => views[v].err = views[v].ret.err
          /\ views[v].err # NoErr =>
                /\ views'[v].err = views[v].err
                /\ views'[v].got = views[v].got
                /\ views'[v].count = views[v].count
                /\ views'[v].d = views[v].d
                /\ views'[v].ret.err \in {NoErr, views[v].err}
                /\ [views'[v] EXCEPT !.shared = views[v].shared,
                                     !.closed = views[v].closed,
                                     !.closeErr = views[v].closeErr] # views[v]
                      => RereadStep(v)
          /\ RereadStep(v) =>
                /\ views[v].err # NoErr
                /\ views'[v].ret = [n |-> 0, err |-> views[v].err]
                /\ rd' = rd
      ]_vars

\* a view that failed on a damaged stream, with bytes of its entry still
\* to come, was read again and returned the same error and no bytes
C19_Witness ==
    \E v \in DOMAIN views :
        /\ views[v].err \notin {NoErr, EOF}
        /\ views[v].ret = [n |-> 0, err |-> views[v].err]
        /\ views[v].count > 0

\* C20: Writer well-formedness.  Whenever the Writer's stored error is nil
\* there is an open entry stream and the entry list is not empty, its last
\* record being the open entry: named by the last successful Create,
\* placed at the running offset, its sizes and checksum not yet recorded;
\* no call ever meets a missing stream or an empty entry list.
C20_WellFormed ==
    /\ bw.err = NoErr =>
          /\ bw.curr.open
          /\ bw.entries # <<>>
          /\ Len(bw.entries) = Len(inputs)
          /\ LET x == bw.entries[Len(bw.entries)]
             IN  /\ x.Name = inputs[Len(inputs)].name
                 /\ x.index = bw.index
                 /\ x.index = Len(sink)
                 /\ x.Size = 0 /\ x.sizeCompressed = 0 /\ x.adler = <<0, 0>>
    /\ bw.err # ErrPanic
    /\ ret.err # ErrPanic

\* a second entry is open and has been written to, after the first was
\* finalized
C20_Witness ==
    /\ phase = "write"
    /\ bw.err = NoErr
    /\ Len(bw.entries) = 2
    /\ bw.curr.open
    /\ bw.curr.data # <<>>
    /\ ret.op = "Write"

====
